---------------------------- MODULE Spec2Model ----------------------------
(***************************************************************************)
(* CoalZero: emissions / sinks / simulation calculators and the dashboard  *)
(* script (app.py) that chains them.                                       *)
(*                                                                         *)
(* Numbers.  The Python code computes with int and float values.  The     *)
(* model computes with exact rationals [n |-> numerator, d |-> denominator]*)
(* in lowest terms with d > 0, so that 2.68 is 67/25 and x / 1000 is an    *)
(* exact quotient.  Python's int 0 and float 0.0 are the same number.      *)
(*                                                                         *)
(* Two specifications share the variables:                                 *)
(*   Spec      the dashboard: every widget change reruns the whole script  *)
(*   SpecCalc  the calculator library called directly, one call per step   *)
(***************************************************************************)
EXTENDS Integers, Sequences, FiniteSets, TLC

(***************************************************************************)
(* Bounds of the model                                                     *)
(***************************************************************************)
\* sidebar inputs range over 0 .. MaxUnits times their default value
MaxUnits == 1
\* direct calls draw whole-number magnitudes from -MaxMag .. MaxMag
MaxMag == 2

(***************************************************************************)
(* Exact rational arithmetic                                               *)
(***************************************************************************)
Abs(i) == IF i < 0 THEN -i ELSE i

RECURSIVE GCD(_, _)
GCD(a, b) == IF b = 0 THEN a ELSE GCD(b, a % b)

\* the rational num/den (den # 0) in lowest terms with a positive denominator
Q(num, den) ==
    LET g == GCD(Abs(num), Abs(den))
        s == IF den < 0 THEN -1 ELSE 1
    IN  [n |-> s * (num \div g), d |-> s * (den \div g)]

R(i) == [n |-> i, d |-> 1]
Zero == R(0)

RNeg(a) == [n |-> -a.n, d |-> a.d]

RAdd(a, b) ==
    LET g == GCD(a.d, b.d)
    IN  Q(a.n * (b.d \div g) + b.n * (a.d \div g), a.d * (b.d \div g))

RSub(a, b) == RAdd(a, RNeg(b))

\* cross-cancelled product: the result is in lowest terms
RMul(a, b) ==
    LET g1 == GCD(Abs(a.n), b.d)
        g2 == GCD(Abs(b.n), a.d)
    IN  [n |-> (a.n \div g1) * (b.n \div g2), d |-> (a.d \div g2) * (b.d \div g1)]

\* quotient a / b for b # 0
RDiv(a, b) ==
    RMul(a, IF b.n < 0 THEN [n |-> -b.d, d |-> -b.n] ELSE [n |-> b.d, d |-> b.n])

RLt(a, b) == RSub(a, b).n < 0
RLe(a, b) == RSub(a, b).n <= 0
RGt(a, b) == RLt(b, a)
RGe(a, b) == RLe(b, a)


(***************************************************************************)
(* utils/emission_factors.py: the constants table                          *)
(***************************************************************************)
DIESEL_EMISSION_FACTOR == Q(268, 100)
ELECTRICITY_EMISSION_FACTOR == Q(82, 100)
COAL_EXCAVATION_FACTOR == Q(15, 100)
TRANSPORTATION_FACTOR == Q(62, 1000)
ABSORPTION_PER_HECTARE == R(10000)
ABSORPTION_PER_TREE == R(22)
RENEWABLE_EMISSION_FACTOR == Q(2, 100)
CARBON_CREDIT_PRICE == R(15)
KG_TO_TONNES == R(1000)
HECTARE_TO_ACRE == Q(247, 100)

\* the module's globals as they stand after import
EmissionFactors ==
    [DIESEL_EMISSION_FACTOR |-> DIESEL_EMISSION_FACTOR,
     ELECTRICITY_EMISSION_FACTOR |-> ELECTRICITY_EMISSION_FACTOR,
     COAL_EXCAVATION_FACTOR |-> COAL_EXCAVATION_FACTOR,
     TRANSPORTATION_FACTOR |-> TRANSPORTATION_FACTOR,
     ABSORPTION_PER_HECTARE |-> ABSORPTION_PER_HECTARE,
     ABSORPTION_PER_TREE |-> ABSORPTION_PER_TREE,
     RENEWABLE_EMISSION_FACTOR |-> RENEWABLE_EMISSION_FACTOR,
     CARBON_CREDIT_PRICE |-> CARBON_CREDIT_PRICE,
     KG_TO_TONNES |-> KG_TO_TONNES,
     HECTARE_TO_ACRE |-> HECTARE_TO_ACRE]

VARIABLES
    \* utils.emission_factors globals, read by every calculator at call time
    factors,
    \* sidebar inputs (app.py 120-183)
    diesel_litres, electricity_kwh, coal_extracted, transport_distance,
    num_workers, plantation_area, num_trees,
    \* simulation sliders (app.py 304-344)
    electrification_pct, renewable_pct, added_plantation, added_trees_sim,
    \* current state computed by the script (app.py 190-211)
    diesel_em, electricity_em, excavation_em, transport_em, total_em,
    per_capita_em, total_absorption_kg, total_em_tonnes,
    total_absorption_tonnes, emission_gap_kg, emission_gap_tonnes, land_needed,
    \* messages of the current status block (app.py 273-283)
    status_msgs,
    \* simulated state computed by the script (app.py 348-363)
    sim_result, new_diesel_em, new_electricity_em, new_total_em,
    new_absorption, new_total_em_tonnes, new_absorption_tonnes, new_gap_tonnes,
    \* impact summary metrics (app.py 428-442)
    reduction, absorption_increase, gap_improvement,
    \* messages of the simulation status block and its cost (app.py 446-456)
    sim_msgs, credit_cost,
    \* a direct call of a calculator: function name, arguments, outcome
    fn, args, ret

inputVars == <<diesel_litres, electricity_kwh, coal_extracted, transport_distance,
               num_workers, plantation_area, num_trees>>
sliderVars == <<electrification_pct, renewable_pct, added_plantation, added_trees_sim>>
currentVars == <<diesel_em, electricity_em, excavation_em, transport_em, total_em,
                 per_capita_em, total_absorption_kg, total_em_tonnes,
                 total_absorption_tonnes, emission_gap_kg, emission_gap_tonnes,
                 land_needed, status_msgs>>
simVars == <<sim_result, new_diesel_em, new_electricity_em, new_total_em,
             new_absorption, new_total_em_tonnes, new_absorption_tonnes,
             new_gap_tonnes, reduction, absorption_increase, gap_improvement,
             sim_msgs, credit_cost>>
callVars == <<fn, args, ret>>
appVars == <<inputVars, sliderVars, currentVars, simVars>>
vars == <<factors, appVars, callVars>>

(***************************************************************************)
(* Outcome of a Python call: a returned value or a raised exception        *)
(***************************************************************************)
Returned(v) == [exc |-> "none", val |-> v]
Raised(e) == [exc |-> e, val |-> Zero]

\* Python's a / b: ZeroDivisionError when b == 0
truediv(a, b) == IF b.n = 0 THEN Raised("ZeroDivisionError") ELSE Returned(RDiv(a, b))

(***************************************************************************)
(* utils/emissions.py                                                      *)
(***************************************************************************)
\* variant: litres billed at the grid electricity factor
diesel_emissions_grid_factor(litres) == RMul(litres, factors.ELECTRICITY_EMISSION_FACTOR)

diesel_emissions(litres) == RMul(litres, factors.DIESEL_EMISSION_FACTOR)

electricity_emissions(kwh) == RMul(kwh, factors.ELECTRICITY_EMISSION_FACTOR)

excavation_emissions(coal_tonnes) == RMul(coal_tonnes, factors.COAL_EXCAVATION_FACTOR)

\* variant: the haul distance is left out of the product
transportation_emissions_per_tonne(coal_tonnes, distance_km) ==
    RMul(coal_tonnes, factors.TRANSPORTATION_FACTOR)

transportation_emissions(coal_tonnes, distance_km) ==
    RMul(RMul(coal_tonnes, distance_km), factors.TRANSPORTATION_FACTOR)

\* variant: the transport term is left out of the sum
total_emissions_no_transport(diesel, electricity, excavation, transport) ==
    RAdd(RAdd(diesel, electricity), excavation)

total_emissions(diesel, electricity, excavation, transport) ==
    RAdd(RAdd(RAdd(diesel, electricity), excavation), transport)

\* variant: no zero-worker guard
per_capita_emissions_unguarded(total, workers) == truediv(total, workers)

\* an outcome: the division is by an argument
per_capita_emissions(total, workers) ==
    IF workers = Zero THEN Returned(Zero) ELSE truediv(total, workers)

emissions_in_tonnes(emissions_kg) == RDiv(emissions_kg, factors.KG_TO_TONNES)

(***************************************************************************)
(* utils/sinks.py                                                          *)
(***************************************************************************)
\* variant: hectares absorb at the per-tree rate
carbon_absorption_from_area_tree_rate(area_hectares) ==
    RMul(area_hectares, factors.ABSORPTION_PER_TREE)

carbon_absorption_from_area(area_hectares) ==
    RMul(area_hectares, factors.ABSORPTION_PER_HECTARE)

carbon_absorption_from_trees(trees) == RMul(trees, factors.ABSORPTION_PER_TREE)

total_absorption(area_hectares, trees) ==
    LET area_absorption == carbon_absorption_from_area(area_hectares)
        tree_absorption == carbon_absorption_from_trees(trees)
    IN  RAdd(area_absorption, tree_absorption)

absorption_in_tonnes(absorption_kg) == RDiv(absorption_kg, factors.KG_TO_TONNES)

\* variant: no clamp at zero
land_required_unclamped(gap_kg) == RDiv(gap_kg, factors.ABSORPTION_PER_HECTARE)

land_required_for_neutrality(gap_kg) ==
    IF RLe(gap_kg, Zero) THEN Zero ELSE RDiv(gap_kg, factors.ABSORPTION_PER_HECTARE)

(***************************************************************************)
(* utils/simulations.py                                                    *)
(***************************************************************************)
\* variant: the electrified share is kept instead of the remaining one
simulate_electrification_share(diesel, electrification_percent) ==
    LET reduction_factor == RDiv(electrification_percent, R(100))
    IN  RMul(diesel, reduction_factor)

\* variant: the percentage is clamped to 0 .. 100
simulate_electrification_clamped(diesel, electrification_percent) ==
    LET pct == IF electrification_percent.n < 0 THEN R(0)
               ELSE IF RGt(electrification_percent, R(100)) THEN R(100)
               ELSE electrification_percent
        reduction_factor == RDiv(RSub(R(100), pct), R(100))
    IN  RMul(diesel, reduction_factor)

\* variant: the percentage is added to the whole instead of taken off it
simulate_electrification_increase(diesel, electrification_percent) ==
    LET reduction_factor == RDiv(RAdd(R(100), electrification_percent), R(100))
    IN  RMul(diesel, reduction_factor)

simulate_electrification(diesel, electrification_percent) ==
    LET reduction_factor == RDiv(RSub(R(100), electrification_percent), R(100))
    IN  RMul(diesel, reduction_factor)

\* variant: the grid share is taken with the wrong sign
simulate_renewable_energy_sign(kwh, renewable_percent) ==
    LET grid_percent == RDiv(RSub(renewable_percent, R(100)), R(100))
        renewable_fraction == RDiv(renewable_percent, R(100))
        grid_emissions ==
            RMul(RMul(kwh, grid_percent), factors.ELECTRICITY_EMISSION_FACTOR)
        renewable_emissions ==
            RMul(RMul(kwh, renewable_fraction), factors.RENEWABLE_EMISSION_FACTOR)
        total_new_emissions == RAdd(grid_emissions, renewable_emissions)
    IN  [total |-> total_new_emissions,
         grid |-> grid_emissions,
         renewable |-> renewable_emissions]

\* variant: the renewable share is billed at the grid factor too
simulate_renewable_energy_one_factor(kwh, renewable_percent) ==
    LET grid_percent == RDiv(RSub(R(100), renewable_percent), R(100))
        renewable_fraction == RDiv(renewable_percent, R(100))
        grid_emissions ==
            RMul(RMul(kwh, grid_percent), factors.ELECTRICITY_EMISSION_FACTOR)
        renewable_emissions ==
            RMul(RMul(kwh, renewable_fraction), factors.ELECTRICITY_EMISSION_FACTOR)
        total_new_emissions == RAdd(grid_emissions, renewable_emissions)
    IN  [total |-> total_new_emissions,
         grid |-> grid_emissions,
         renewable |-> renewable_emissions]

\* variant: the renewable share is billed at nothing
simulate_renewable_energy_zero_residual(kwh, renewable_percent) ==
    LET grid_percent == RDiv(RSub(R(100), renewable_percent), R(100))
        renewable_fraction == RDiv(renewable_percent, R(100))
        grid_emissions ==
            RMul(RMul(kwh, grid_percent), factors.ELECTRICITY_EMISSION_FACTOR)
        renewable_emissions == Zero
        total_new_emissions == RAdd(grid_emissions, renewable_emissions)
    IN  [total |-> total_new_emissions,
         grid |-> grid_emissions,
         renewable |-> renewable_emissions]

simulate_renewable_energy(kwh, renewable_percent) ==
    LET grid_percent == RDiv(RSub(R(100), renewable_percent), R(100))
        renewable_fraction == RDiv(renewable_percent, R(100))
        grid_emissions ==
            RMul(RMul(kwh, grid_percent), factors.ELECTRICITY_EMISSION_FACTOR)
        renewable_emissions ==
            RMul(RMul(kwh, renewable_fraction), factors.RENEWABLE_EMISSION_FACTOR)
        total_new_emissions == RAdd(grid_emissions, renewable_emissions)
    IN  [total |-> total_new_emissions,
         grid |-> grid_emissions,
         renewable |-> renewable_emissions]

\* variant: added trees absorb at the per-hectare rate
simulate_afforestation_tree_rate(current_absorption, added_area_hectares, added_trees) ==
    LET new_area_absorption == carbon_absorption_from_area(added_area_hectares)
        new_tree_absorption == carbon_absorption_from_area(added_trees)
    IN  RAdd(RAdd(current_absorption, new_area_absorption), new_tree_absorption)

\* variant: the added sinks replace the existing ones
simulate_afforestation_replacing(current_absorption, added_area_hectares, added_trees) ==
    LET new_area_absorption == carbon_absorption_from_area(added_area_hectares)
        new_tree_absorption == carbon_absorption_from_trees(added_trees)
    IN  RAdd(new_area_absorption, new_tree_absorption)

simulate_afforestation(current_absorption, added_area_hectares, added_trees) ==
    LET new_area_absorption == carbon_absorption_from_area(added_area_hectares)
        new_tree_absorption == carbon_absorption_from_trees(added_trees)
    IN  RAdd(RAdd(current_absorption, new_area_absorption), new_tree_absorption)

\* variant: no clamp at zero
calculate_carbon_credits_unclamped(gap_tonnes) ==
    RMul(gap_tonnes, factors.CARBON_CREDIT_PRICE)

\* variant: the gap is taken to be in kilograms
calculate_carbon_credits_per_kg(gap_tonnes) ==
    IF RLe(gap_tonnes, Zero) THEN Zero
    ELSE RMul(RDiv(gap_tonnes, factors.KG_TO_TONNES), factors.CARBON_CREDIT_PRICE)

calculate_carbon_credits(gap_tonnes) ==
    IF RLe(gap_tonnes, Zero) THEN Zero ELSE RMul(gap_tonnes, factors.CARBON_CREDIT_PRICE)

\* variant: the two percentages are passed the wrong way round
combined_simulation_swapped(diesel, kwh, current_absorption, ep, rp, added_area, added_trees) ==
    LET sim_diesel_em == simulate_electrification(diesel, rp)
        new_elec_result == simulate_renewable_energy(kwh, ep)
        sim_absorption == simulate_afforestation(current_absorption, added_area, added_trees)
    IN  [diesel_emissions |-> sim_diesel_em,
         electricity_emissions |-> new_elec_result.total,
         total_absorption |-> sim_absorption]

\* variant: the electricity saved by renewables is credited to the sinks
combined_simulation_credited(diesel, kwh, current_absorption, ep, rp, added_area, added_trees) ==
    LET sim_diesel_em == simulate_electrification(diesel, ep)
        new_elec_result == simulate_renewable_energy(kwh, rp)
        sim_absorption == simulate_afforestation(current_absorption, added_area, added_trees)
    IN  [diesel_emissions |-> sim_diesel_em,
         electricity_emissions |-> new_elec_result.total,
         total_absorption |-> RAdd(sim_absorption, new_elec_result.renewable)]

\* variant: the electricity argument is turned into emissions before the blend
combined_simulation_double_factor(diesel, kwh, current_absorption, ep, rp, added_area, added_trees) ==
    LET sim_diesel_em == simulate_electrification(diesel, ep)
        new_elec_result == simulate_renewable_energy(electricity_emissions(kwh), rp)
        sim_absorption == simulate_afforestation(current_absorption, added_area, added_trees)
    IN  [diesel_emissions |-> sim_diesel_em,
         electricity_emissions |-> new_elec_result.total,
         total_absorption |-> sim_absorption]

combined_simulation(diesel, kwh, current_absorption, ep, rp, added_area, added_trees) ==
    LET sim_diesel_em == simulate_electrification(diesel, ep)
        new_elec_result == simulate_renewable_energy(kwh, rp)
        sim_absorption == simulate_afforestation(current_absorption, added_area, added_trees)
    IN  [diesel_emissions |-> sim_diesel_em,
         electricity_emissions |-> new_elec_result.total,
         total_absorption |-> sim_absorption]

(***************************************************************************)
(* app.py: the dashboard script.  Streamlit reruns the whole script, top   *)
(* to bottom, whenever a widget value changes.                             *)
(***************************************************************************)
\* values a user can give the widgets: the number inputs of the operation take
\* their min_value and multiples of their default, the worker and tree counts
\* their min_value and default, the sliders their min, default and max
DieselChoices == {R(i * 50000) : i \in 0..MaxUnits}
ElectricityChoices == {R(i * 500000) : i \in 0..MaxUnits}
CoalChoices == {R(i * 100000) : i \in 0..MaxUnits}
DistanceChoices == {R(i * 50) : i \in 0..MaxUnits}
WorkerChoices == {R(1), R(500)}
PlantationChoices == {R(i * 10) : i \in 0..MaxUnits}
TreeChoices == {R(0), R(1000)}
ElectrificationChoices == {R(0), R(30), R(100)}
RenewableChoices == {R(0), R(50), R(100)}
AddedPlantationChoices == {R(0), R(20), R(100)}
AddedTreesChoices == {R(0), R(2000)}

\* app.py 274-275 and 447-448
all_inputs_zero ==
    /\ diesel_litres = Zero
    /\ electricity_kwh = Zero
    /\ coal_extracted = Zero
    /\ transport_distance = Zero

\* variant: a gap of exactly 0 counts as carbon positive
CurrentStatus_nonstrict(inputs_zero, gap_tonnes) ==
    IF inputs_zero THEN {"NoProductionData"}
    ELSE IF RGe(gap_tonnes, Zero) THEN {"CarbonPositive", "LandRequirement"}
    ELSE {"Congratulations"}

\* app.py 273-283: the current status block
CurrentStatus(inputs_zero, gap_tonnes) ==
    IF inputs_zero THEN {"NoProductionData"}
    ELSE IF RGt(gap_tonnes, Zero) THEN {"CarbonPositive", "LandRequirement"}
    ELSE {"Congratulations"}

\* app.py 446-456: the simulation status block
SimulationStatus(inputs_zero, gap_tonnes) ==
    IF inputs_zero THEN {"NoProductionData"}
    ELSE IF RGt(gap_tonnes, Zero) THEN {"CarbonCreditEstimate"}
    ELSE {"AchievementUnlocked"}

\* variant: only the two simulated terms are summed
SimulatedTotal_levers_only(sim_diesel, sim_electricity, excavation, transport) ==
    RAdd(sim_diesel, sim_electricity)

\* app.py 358: the simulated total, with excavation and transport re-added
SimulatedTotal(sim_diesel, sim_electricity, excavation, transport) ==
    RAdd(RAdd(RAdd(sim_diesel, sim_electricity), excavation), transport)

\* credit_cost is bound only in the branch that shows the estimate
Unbound == [n |-> 0, d |-> 0]

\* app.py 190-211, 273-283, 348-363, 428-456: the script's variables at the
\* end of a run over the current widget values
ScriptRun ==
    /\ diesel_em = diesel_emissions(diesel_litres)
    /\ electricity_em = electricity_emissions(electricity_kwh)
    /\ excavation_em = excavation_emissions(coal_extracted)
    /\ transport_em = transportation_emissions(coal_extracted, transport_distance)
    /\ total_em = total_emissions(diesel_em, electricity_em, excavation_em, transport_em)
    /\ per_capita_em = per_capita_emissions(total_em, num_workers).val
    /\ total_absorption_kg = total_absorption(plantation_area, num_trees)
    /\ total_em_tonnes = emissions_in_tonnes(total_em)
    /\ total_absorption_tonnes = absorption_in_tonnes(total_absorption_kg)
    /\ emission_gap_kg = RSub(total_em, total_absorption_kg)
    /\ emission_gap_tonnes = RDiv(emission_gap_kg, R(1000))
    /\ land_needed = land_required_for_neutrality(emission_gap_kg)
    /\ status_msgs = CurrentStatus(all_inputs_zero, emission_gap_tonnes)
    /\ sim_result = combined_simulation(diesel_em, electricity_kwh, total_absorption_kg,
                                        electrification_pct, renewable_pct,
                                        added_plantation, added_trees_sim)
    /\ new_diesel_em = sim_result.diesel_emissions
    /\ new_electricity_em = sim_result.electricity_emissions
    /\ new_total_em = SimulatedTotal(new_diesel_em, new_electricity_em,
                                     excavation_em, transport_em)
    /\ new_absorption = sim_result.total_absorption
    /\ new_total_em_tonnes = RDiv(new_total_em, R(1000))
    /\ new_absorption_tonnes = RDiv(new_absorption, R(1000))
    /\ new_gap_tonnes = RDiv(RSub(new_total_em, new_absorption), R(1000))
    /\ reduction = RSub(total_em_tonnes, new_total_em_tonnes)
    /\ absorption_increase = RSub(new_absorption_tonnes, total_absorption_tonnes)
    /\ gap_improvement = RSub(emission_gap_tonnes, new_gap_tonnes)
    /\ sim_msgs = SimulationStatus(all_inputs_zero, new_gap_tonnes)
    /\ credit_cost = IF "CarbonCreditEstimate" \in sim_msgs
                     THEN calculate_carbon_credits(new_gap_tonnes)
                     ELSE Unbound

\* a rerun: the same run over the new widget values; the calculators' globals
\* and the direct-call record are not touched
Rerun ==
    /\ UNCHANGED <<factors, callVars>>
    /\ diesel_em' = diesel_emissions(diesel_litres')
    /\ electricity_em' = electricity_emissions(electricity_kwh')
    /\ excavation_em' = excavation_emissions(coal_extracted')
    /\ transport_em' = transportation_emissions(coal_extracted', transport_distance')
    /\ total_em' = total_emissions(diesel_em', electricity_em', excavation_em', transport_em')
    /\ per_capita_em' = per_capita_emissions(total_em', num_workers').val
    /\ total_absorption_kg' = total_absorption(plantation_area', num_trees')
    /\ total_em_tonnes' = emissions_in_tonnes(total_em')
    /\ total_absorption_tonnes' = absorption_in_tonnes(total_absorption_kg')
    /\ emission_gap_kg' = RSub(total_em', total_absorption_kg')
    /\ emission_gap_tonnes' = RDiv(emission_gap_kg', R(1000))
    /\ land_needed' = land_required_for_neutrality(emission_gap_kg')
    /\ status_msgs' = CurrentStatus(all_inputs_zero', emission_gap_tonnes')
    /\ sim_result' = combined_simulation(diesel_em', electricity_kwh', total_absorption_kg',
                                        electrification_pct', renewable_pct',
                                        added_plantation', added_trees_sim')
    /\ new_diesel_em' = sim_result'.diesel_emissions
    /\ new_electricity_em' = sim_result'.electricity_emissions
    /\ new_total_em' = SimulatedTotal(new_diesel_em', new_electricity_em',
                                      excavation_em', transport_em')
    /\ new_absorption' = sim_result'.total_absorption
    /\ new_total_em_tonnes' = RDiv(new_total_em', R(1000))
    /\ new_absorption_tonnes' = RDiv(new_absorption', R(1000))
    /\ new_gap_tonnes' = RDiv(RSub(new_total_em', new_absorption'), R(1000))
    /\ reduction' = RSub(total_em_tonnes', new_total_em_tonnes')
    /\ absorption_increase' = RSub(new_absorption_tonnes', total_absorption_tonnes')
    /\ gap_improvement' = RSub(emission_gap_tonnes', new_gap_tonnes')
    /\ sim_msgs' = SimulationStatus(all_inputs_zero', new_gap_tonnes')
    /\ credit_cost' = IF "CarbonCreditEstimate" \in sim_msgs'
                     THEN calculate_carbon_credits(new_gap_tonnes')
                     ELSE Unbound

\* a widget change: the widget takes the value, the script reruns
SetDieselLitres(v) ==
    /\ diesel_litres' = v
    /\ UNCHANGED <<electricity_kwh, coal_extracted, transport_distance, num_workers,
                   plantation_area, num_trees, sliderVars>>
    /\ Rerun

SetElectricityKwh(v) ==
    /\ electricity_kwh' = v
    /\ UNCHANGED <<diesel_litres, coal_extracted, transport_distance, num_workers,
                   plantation_area, num_trees, sliderVars>>
    /\ Rerun

SetCoalExtracted(v) ==
    /\ coal_extracted' = v
    /\ UNCHANGED <<diesel_litres, electricity_kwh, transport_distance, num_workers,
                   plantation_area, num_trees, sliderVars>>
    /\ Rerun

SetTransportDistance(v) ==
    /\ transport_distance' = v
    /\ UNCHANGED <<diesel_litres, electricity_kwh, coal_extracted, num_workers,
                   plantation_area, num_trees, sliderVars>>
    /\ Rerun

SetNumWorkers(v) ==
    /\ num_workers' = v
    /\ UNCHANGED <<diesel_litres, electricity_kwh, coal_extracted, transport_distance,
                   plantation_area, num_trees, sliderVars>>
    /\ Rerun

SetPlantationArea(v) ==
    /\ plantation_area' = v
    /\ UNCHANGED <<diesel_litres, electricity_kwh, coal_extracted, transport_distance,
                   num_workers, num_trees, sliderVars>>
    /\ Rerun

SetNumTrees(v) ==
    /\ num_trees' = v
    /\ UNCHANGED <<diesel_litres, electricity_kwh, coal_extracted, transport_distance,
                   num_workers, plantation_area, sliderVars>>
    /\ Rerun

SetElectrificationPct(v) ==
    /\ electrification_pct' = v
    /\ UNCHANGED <<inputVars, renewable_pct, added_plantation, added_trees_sim>>
    /\ Rerun

SetRenewablePct(v) ==
    /\ renewable_pct' = v
    /\ UNCHANGED <<inputVars, electrification_pct, added_plantation, added_trees_sim>>
    /\ Rerun

SetAddedPlantation(v) ==
    /\ added_plantation' = v
    /\ UNCHANGED <<inputVars, electrification_pct, renewable_pct, added_trees_sim>>
    /\ Rerun

SetAddedTrees(v) ==
    /\ added_trees_sim' = v
    /\ UNCHANGED <<inputVars, electrification_pct, renewable_pct, added_plantation>>
    /\ Rerun

\* first run of the script: every widget at its default value
Init ==
    /\ factors = EmissionFactors
    /\ diesel_litres = R(50000)
    /\ electricity_kwh = R(500000)
    /\ coal_extracted = R(100000)
    /\ transport_distance = R(50)
    /\ num_workers = R(500)
    /\ plantation_area = R(10)
    /\ num_trees = R(1000)
    /\ electrification_pct = R(30)
    /\ renewable_pct = R(50)
    /\ added_plantation = R(20)
    /\ added_trees_sim = R(2000)
    /\ ScriptRun
    /\ fn = "none"
    /\ args = <<>>
    /\ ret = Returned(Zero)

Next ==
    \/ \E v \in DieselChoices : SetDieselLitres(v)
    \/ \E v \in ElectricityChoices : SetElectricityKwh(v)
    \/ \E v \in CoalChoices : SetCoalExtracted(v)
    \/ \E v \in DistanceChoices : SetTransportDistance(v)
    \/ \E v \in WorkerChoices : SetNumWorkers(v)
    \/ \E v \in PlantationChoices : SetPlantationArea(v)
    \/ \E v \in TreeChoices : SetNumTrees(v)
    \/ \E v \in ElectrificationChoices : SetElectrificationPct(v)
    \/ \E v \in RenewableChoices : SetRenewablePct(v)
    \/ \E v \in AddedPlantationChoices : SetAddedPlantation(v)
    \/ \E v \in AddedTreesChoices : SetAddedTrees(v)

Spec == Init /\ [][Next]_vars

(***************************************************************************)
(* The calculators called directly: each step is one call, recorded with   *)
(* its arguments and its outcome.  Nothing validates the arguments.        *)
(***************************************************************************)
\* argument values: halves in -MaxMag .. MaxMag, and whole multiples of 10000
Quantities ==
    {Q(i, 2) : i \in (-2 * MaxMag)..(2 * MaxMag)} \cup {R(10000 * i) : i \in 1..MaxMag}
\* a smaller set for the calculators of several arguments
FewQuantities == {Q(i, 2) : i \in -1..MaxMag}
\* non-negative terms of a sum
Terms == {Q(i, 2) : i \in 0..MaxMag}
\* percentages, in and out of 0 .. 100
Percentages == {R(25 * i) : i \in (-MaxMag)..(4 + MaxMag)}
FewPercentages == {R(0), R(50), R(125)}
\* head counts
HeadCounts == {R(i) : i \in 0..MaxMag}
\* arguments of the combined simulation, among those of the three levers
Amounts == {R(0), R(10000)}
Additions == {R(0), R(1)}

\* variant: a call leaves a changed credit price behind
Call_repricing(name, arguments, outcome) ==
    /\ fn' = name
    /\ args' = arguments
    /\ ret' = outcome
    /\ factors' = [factors EXCEPT !.CARBON_CREDIT_PRICE = R(16)]
    /\ UNCHANGED appVars

Call(name, arguments, outcome) ==
    /\ fn' = name
    /\ args' = arguments
    /\ ret' = outcome
    /\ UNCHANGED <<factors, appVars>>

CallDieselEmissions(litres) ==
    Call("diesel_emissions", <<litres>>, Returned(diesel_emissions(litres)))

CallElectricityEmissions(kwh) ==
    Call("electricity_emissions", <<kwh>>, Returned(electricity_emissions(kwh)))

CallExcavationEmissions(coal_tonnes) ==
    Call("excavation_emissions", <<coal_tonnes>>, Returned(excavation_emissions(coal_tonnes)))

CallTransportationEmissions(coal_tonnes, distance_km) ==
    Call("transportation_emissions", <<coal_tonnes, distance_km>>,
         Returned(transportation_emissions(coal_tonnes, distance_km)))

CallTotalEmissions(a, b, c, d) ==
    Call("total_emissions", <<a, b, c, d>>, Returned(total_emissions(a, b, c, d)))

CallPerCapitaEmissions(total, workers) ==
    Call("per_capita_emissions", <<total, workers>>, per_capita_emissions(total, workers))

CallEmissionsInTonnes(kg) ==
    Call("emissions_in_tonnes", <<kg>>, Returned(emissions_in_tonnes(kg)))

CallCarbonAbsorptionFromArea(hectares) ==
    Call("carbon_absorption_from_area", <<hectares>>,
         Returned(carbon_absorption_from_area(hectares)))

CallCarbonAbsorptionFromTrees(trees) ==
    Call("carbon_absorption_from_trees", <<trees>>,
         Returned(carbon_absorption_from_trees(trees)))

CallTotalAbsorption(hectares, trees) ==
    Call("total_absorption", <<hectares, trees>>, Returned(total_absorption(hectares, trees)))

CallAbsorptionInTonnes(kg) ==
    Call("absorption_in_tonnes", <<kg>>, Returned(absorption_in_tonnes(kg)))

CallLandRequiredForNeutrality(gap_kg) ==
    Call("land_required_for_neutrality", <<gap_kg>>,
         Returned(land_required_for_neutrality(gap_kg)))

CallSimulateElectrification(diesel, pct) ==
    Call("simulate_electrification", <<diesel, pct>>,
         Returned(simulate_electrification(diesel, pct)))

CallSimulateRenewableEnergy(kwh, pct) ==
    Call("simulate_renewable_energy", <<kwh, pct>>,
         Returned(simulate_renewable_energy(kwh, pct)))

CallSimulateAfforestation(current, hectares, trees) ==
    Call("simulate_afforestation", <<current, hectares, trees>>,
         Returned(simulate_afforestation(current, hectares, trees)))

CallCalculateCarbonCredits(gap_tonnes) ==
    Call("calculate_carbon_credits", <<gap_tonnes>>,
         Returned(calculate_carbon_credits(gap_tonnes)))

CallCombinedSimulation(diesel, kwh, current, ep, rp, hectares, trees) ==
    Call("combined_simulation", <<diesel, kwh, current, ep, rp, hectares, trees>>,
         Returned(combined_simulation(diesel, kwh, current, ep, rp, hectares, trees)))

NextCalc ==
    \/ \E x \in Quantities : CallDieselEmissions(x)
    \/ \E x \in Quantities : CallElectricityEmissions(x)
    \/ \E x \in Quantities : CallExcavationEmissions(x)
    \/ \E x \in Quantities, y \in FewQuantities : CallTransportationEmissions(x, y)
    \/ \E a, b, c, d \in Terms : CallTotalEmissions(a, b, c, d)
    \/ \E t \in Quantities, w \in HeadCounts : CallPerCapitaEmissions(t, w)
    \/ \E x \in Quantities : CallEmissionsInTonnes(x)
    \/ \E x \in Quantities : CallCarbonAbsorptionFromArea(x)
    \/ \E x \in Quantities : CallCarbonAbsorptionFromTrees(x)
    \/ \E x, y \in FewQuantities : CallTotalAbsorption(x, y)
    \/ \E x \in Quantities : CallAbsorptionInTonnes(x)
    \/ \E x \in Quantities : CallLandRequiredForNeutrality(x)
    \/ \E x \in Quantities, p \in Percentages : CallSimulateElectrification(x, p)
    \/ \E x \in Quantities, p \in Percentages : CallSimulateRenewableEnergy(x, p)
    \/ \E c, h, t \in FewQuantities : CallSimulateAfforestation(c, h, t)
    \/ \E x \in Quantities : CallCalculateCarbonCredits(x)
    \/ \E dk, ek \in Amounts, ca, h, t \in Additions, ep, rp \in FewPercentages :
            CallCombinedSimulation(dk, ek, ca, ep, rp, h, t)

SpecCalc == Init /\ [][NextCalc]_vars

(***************************************************************************)
(* Properties                                                              *)
(***************************************************************************)
\* the widgets hold the reference operation of scenario example 1
ReferenceInputs ==
    /\ diesel_litres = R(50000)
    /\ electricity_kwh = R(500000)
    /\ coal_extracted = R(100000)
    /\ transport_distance = R(50)
    /\ num_workers = R(500)
    /\ plantation_area = R(10)
    /\ num_trees = R(1000)

\* the sliders hold the mitigation parameters of scenario example 2
ReferenceSliders ==
    /\ electrification_pct = R(30)
    /\ renewable_pct = R(50)
    /\ added_plantation = R(20)
    /\ added_trees_sim = R(2000)

\* C1: on the reference inputs (50000 L, 500000 kWh, 100000 t, 50 km, 500
\* workers, 10 ha, 1000 trees) the current-state chain yields diesel 134000,
\* electricity 410000, excavation 15000, transport 310000, total 869000 and
\* sinks 122000 kg, a gap of 747000 kg = 747 t, 1738 kg per person and a land
\* requirement of 74.7 ha.
C1_ReferenceCurrentState ==
    ReferenceInputs =>
        /\ diesel_em = R(134000)
        /\ electricity_em = R(410000)
        /\ excavation_em = R(15000)
        /\ transport_em = R(310000)
        /\ total_em = R(869000)
        /\ total_absorption_kg = R(122000)
        /\ emission_gap_kg = R(747000)
        /\ emission_gap_tonnes = R(747)
        /\ per_capita_em = R(1738)
        /\ land_needed = Q(747, 10)

\* the reference inputs under sliders moved off their defaults
C1_Witness ==
    /\ ReferenceInputs
    /\ electrification_pct = R(100)
    /\ added_trees_sim = R(0)
    /\ land_needed = Q(747, 10)

\* C2: on the reference inputs with 30 % electrification, 50 % renewables, 20
\* added hectares and 2000 added trees, combined_simulation returns diesel
\* 93800, electricity 210000 (grid 205000 + renewable 5000) and absorption
\* 366000; with excavation and transport re-added the simulated total is
\* 628800 kg, the simulated gap 262.8 t and the credit cost 3942 USD.
C2_ReferenceSimulation ==
    (ReferenceInputs /\ ReferenceSliders) =>
        /\ sim_result.diesel_emissions = R(93800)
        /\ sim_result.electricity_emissions = R(210000)
        /\ simulate_renewable_energy(electricity_kwh, renewable_pct).grid = R(205000)
        /\ simulate_renewable_energy(electricity_kwh, renewable_pct).renewable = R(5000)
        /\ sim_result.total_absorption = R(366000)
        /\ new_total_em = R(628800)
        /\ new_gap_tonnes = Q(2628, 10)
        /\ sim_msgs = {"CarbonCreditEstimate"}
        /\ credit_cost = R(3942)

C2_Witness ==
    /\ ReferenceInputs
    /\ ReferenceSliders
    /\ new_absorption = R(366000)
    /\ credit_cost = R(3942)

\* C3: per_capita_emissions(total, workers) returns 0, and raises nothing,
\* for every total when workers is 0, and returns total / workers when
\* workers is positive.
C3_PerCapita ==
    fn = "per_capita_emissions" =>
        /\ args[2] = Zero => ret = [exc |-> "none", val |-> Zero]
        /\ args[2].n > 0 =>
              /\ ret.exc = "none"
              /\ ret.val.n * args[2].n * args[1].d = args[1].n * ret.val.d * args[2].d

C3_Witness ==
    /\ fn = "per_capita_emissions"
    /\ args[1].n > 0
    /\ args[2] = Zero
    /\ ret.exc = "none"

\* C4: land_required_for_neutrality(gap) is 0 for gap <= 0 and gap / 10000
\* for gap > 0; it is never negative and both branches give 0 at gap = 0.
C4_LandRequired ==
    fn = "land_required_for_neutrality" =>
        /\ ret.exc = "none"
        /\ args[1].n <= 0 => ret.val = Zero
        /\ args[1].n > 0 => ret.val = RDiv(args[1], R(10000))
        /\ args[1].n = 0 => ret.val = RDiv(args[1], R(10000))
        /\ ret.val.n >= 0

C4_Witness ==
    /\ fn = "land_required_for_neutrality"
    /\ args[1].n < 0
    /\ ret.val = Zero

\* C5: calculate_carbon_credits(gap) is 0 for gap <= 0 and gap * 15 for
\* gap > 0; the cost is never negative.
C5_CarbonCredits ==
    fn = "calculate_carbon_credits" =>
        /\ ret.exc = "none"
        /\ args[1].n <= 0 => ret.val = Zero
        /\ args[1].n > 0 => ret.val = RMul(args[1], R(15))
        /\ ret.val.n >= 0

C5_Witness ==
    /\ fn = "calculate_carbon_credits"
    /\ args[1].n < 0
    /\ ret.val = Zero

\* C6: a negative litres, kWh, coal tonnes, distance, hectares or tree count
\* passed to its calculator is rejected with InvalidInput and no number is
\* returned.
C6_NegativeRejected ==
    (/\ fn \in {"diesel_emissions", "electricity_emissions", "excavation_emissions",
                "transportation_emissions", "carbon_absorption_from_area",
                "carbon_absorption_from_trees"}
     /\ \E i \in 1..Len(args) : args[i].n < 0)
        => ret.exc = "InvalidInput"

\* C7: a percentage outside 0 .. 100 passed to simulate_electrification or
\* simulate_renewable_energy, directly or through combined_simulation, fails
\* with InvalidInput.
C7_PercentageRejected ==
    LET OutOfRange(p) == p.n < 0 \/ p.n > 100 * p.d
    IN  (\/ /\ fn \in {"simulate_electrification", "simulate_renewable_energy"}
            /\ OutOfRange(args[2])
         \/ /\ fn = "combined_simulation"
            /\ OutOfRange(args[4]) \/ OutOfRange(args[5]))
            => ret.exc = "InvalidInput"

\* C8: the total of an emissions breakdown is the sum of its diesel,
\* electricity, excavation and transport components, in the current scenario
\* (total_emissions) and in the simulated total the script assembles.
C8_TotalIsSum ==
    /\ total_em = RAdd(diesel_em, RAdd(electricity_em, RAdd(excavation_em, transport_em)))
    /\ new_total_em = RAdd(sim_result.diesel_emissions,
                           RAdd(sim_result.electricity_emissions,
                                RAdd(excavation_em, transport_em)))

\* all four components positive, after the operation was changed
C8_Witness ==
    /\ ~ReferenceInputs
    /\ diesel_em.n > 0
    /\ electricity_em.n > 0
    /\ excavation_em.n > 0
    /\ transport_em.n > 0
    /\ new_total_em.n < total_em.n

\* C9: for litres L >= 0, diesel_emissions(L) = L * 2.68, and of two
\* successive calls with 0 <= L1 <= L2 the second returns no less.
C9_DieselLinearMonotone ==
    /\ [](fn = "diesel_emissions" /\ args[1].n >= 0
            => ret = [exc |-> "none", val |-> RMul(args[1], Q(268, 100))])
    /\ [][(/\ fn = "diesel_emissions"
           /\ fn' = "diesel_emissions"
           /\ args[1].n >= 0
           /\ RLe(args[1], args'[1]))
              => RLe(ret.val, ret'.val)]_vars

C9_Witness ==
    /\ fn = "diesel_emissions"
    /\ args[1] = Q(1, 2)
    /\ ret.val.n > 0

\* C10: simulate_renewable_energy(kwh, pct) returns grid = kwh * (100 - pct) /
\* 100 * 0.82, renewable = kwh * pct / 100 * 0.02 and total = grid +
\* renewable; for kwh >= 0 and pct in 0 .. 100 the energy behind the two
\* fields (grid / 0.82 and renewable / 0.02) adds up to kwh.
C10_RenewableBlend ==
    fn = "simulate_renewable_energy" =>
        LET kwh == args[1]
            pct == args[2]
            out == ret.val
        IN  /\ ret.exc = "none"
            /\ out.grid = RMul(RDiv(RMul(kwh, RSub(R(100), pct)), R(100)), Q(82, 100))
            /\ out.renewable = RMul(RDiv(RMul(kwh, pct), R(100)), Q(2, 100))
            /\ out.total = RAdd(out.grid, out.renewable)
            /\ (kwh.n >= 0 /\ pct.n >= 0 /\ pct.n <= 100 * pct.d) =>
                  RAdd(RDiv(out.grid, Q(82, 100)), RDiv(out.renewable, Q(2, 100))) = kwh

C10_Witness ==
    /\ fn = "simulate_renewable_energy"
    /\ args[1].n > 0
    /\ args[2] = R(25)
    /\ ret.val.grid.n > 0
    /\ ret.val.renewable.n > 0

\* C11: simulate_electrification(diesel_kg, pct) returns diesel_kg * (100 -
\* pct) / 100; for diesel_kg >= 0 and pct in 0 .. 100 the result lies in
\* 0 .. diesel_kg, is diesel_kg at pct = 0 and 0 at pct = 100.
C11_Electrification ==
    fn = "simulate_electrification" =>
        LET diesel_kg == args[1]
            pct == args[2]
        IN  /\ ret = [exc |-> "none",
                      val |-> RDiv(RMul(diesel_kg, RSub(R(100), pct)), R(100))]
            /\ (diesel_kg.n >= 0 /\ pct.n >= 0 /\ pct.n <= 100 * pct.d) =>
                  /\ ret.val.n >= 0
                  /\ ret.val.n * diesel_kg.d <= diesel_kg.n * ret.val.d
            /\ pct = R(0) => ret.val = diesel_kg
            /\ pct = R(100) => ret.val = Zero

C11_Witness ==
    /\ fn = "simulate_electrification"
    /\ args[1].n > 0
    /\ args[2] = R(75)
    /\ ret.val.n > 0
    /\ RLt(ret.val, args[1])

\* C12: simulate_afforestation(current, hectares, trees) returns current +
\* hectares * 10000 + trees * 22: the additions come on top of the existing
\* sinks, so for non-negative additions the result is at least current.
C12_Afforestation ==
    fn = "simulate_afforestation" =>
        /\ ret = [exc |-> "none",
                  val |-> RAdd(args[1], RAdd(RMul(args[2], R(10000)), RMul(args[3], R(22))))]
        /\ (args[2].n >= 0 /\ args[3].n >= 0) => RGe(ret.val, args[1])

C12_Witness ==
    /\ fn = "simulate_afforestation"
    /\ args[1].n > 0
    /\ args[2].n > 0
    /\ args[3].n > 0
    /\ RGt(ret.val, args[1])

\* C13: combined_simulation returns what the three levers return side by
\* side: a call of simulate_electrification, simulate_renewable_energy or
\* simulate_afforestation followed by a combined_simulation over the same
\* arguments finds its result in 'diesel_emissions', 'electricity_emissions'
\* (the lever's 'total') or 'total_absorption'; the bundle has no other field.
C13_CombinedIsThreeLevers ==
    /\ [](fn = "combined_simulation" =>
            /\ ret.exc = "none"
            /\ DOMAIN ret.val =
                  {"diesel_emissions", "electricity_emissions", "total_absorption"})
    /\ [][(/\ fn = "simulate_electrification"
           /\ fn' = "combined_simulation"
           /\ args'[1] = args[1]
           /\ args'[4] = args[2])
              => ret'.val.diesel_emissions = ret.val]_vars
    /\ [][(/\ fn = "simulate_renewable_energy"
           /\ fn' = "combined_simulation"
           /\ args'[2] = args[1]
           /\ args'[5] = args[2])
              => ret'.val.electricity_emissions = ret.val.total]_vars
    /\ [][(/\ fn = "simulate_afforestation"
           /\ fn' = "combined_simulation"
           /\ args'[3] = args[1]
           /\ args'[6] = args[2]
           /\ args'[7] = args[3])
              => ret'.val.total_absorption = ret.val]_vars

\* a combined run in which all three levers act on something
C13_Witness ==
    /\ fn = "combined_simulation"
    /\ args[1].n > 0
    /\ args[2].n > 0
    /\ args[3].n > 0
    /\ args[4] = R(50)
    /\ args[5] = R(0)
    /\ args[6].n > 0
    /\ args[7].n > 0
    /\ ret.val.diesel_emissions = R(5000)

\* only sliders moved in this step
OnlySlidersChange == inputVars' = inputVars /\ sliderVars' # sliderVars

\* C14: simulation leaves excavation and transport alone: whatever the sliders
\* are set to, the excavation and transport emissions keep their values, and
\* the simulated total is the new diesel plus the new electricity plus these
\* two unchanged terms.
C14_ExcavationTransportFrame ==
    /\ [](RSub(RSub(new_total_em, new_diesel_em), new_electricity_em)
            = RAdd(excavation_em, transport_em))
    /\ [](/\ excavation_em = RMul(coal_extracted, Q(15, 100))
          /\ transport_em = RMul(RMul(coal_extracted, transport_distance), Q(62, 1000)))
    /\ [][OnlySlidersChange =>
            /\ excavation_em' = excavation_em
            /\ transport_em' = transport_em
            /\ RSub(RSub(new_total_em', new_diesel_em'), new_electricity_em')
                  = RSub(RSub(new_total_em, new_diesel_em), new_electricity_em)]_vars

\* both levers at 100 %: what is left of the simulated total above the
\* residual renewable electricity is excavation and transport
C14_Witness ==
    /\ electrification_pct = R(100)
    /\ renewable_pct = R(100)
    /\ added_plantation = R(100)
    /\ excavation_em.n > 0
    /\ transport_em.n > 0
    /\ new_diesel_em = Zero
    /\ diesel_em.n > 0
    /\ RSub(new_total_em, new_electricity_em) = RAdd(excavation_em, transport_em)

\* C15: with every operational input 0 the pipeline raises nothing and all
\* its results are 0: each stage, called with zeros (the inputs, or the zero
\* results of the stages before it), returns 0.
C15_AllZero ==
    (/\ fn \in {"diesel_emissions", "electricity_emissions", "excavation_emissions",
                "transportation_emissions", "total_emissions", "per_capita_emissions",
                "emissions_in_tonnes", "total_absorption", "absorption_in_tonnes",
                "land_required_for_neutrality", "calculate_carbon_credits"}
     /\ \A i \in 1..Len(args) : args[i] = Zero)
        => ret = [exc |-> "none", val |-> Zero]

\* zero emissions over zero workers
C15_Witness ==
    /\ fn = "per_capita_emissions"
    /\ args = <<Zero, Zero>>
    /\ ret = [exc |-> "none", val |-> Zero]

C17_Deterministic ==
    /\ [](factors = EmissionFactors)
    /\ [][factors' = factors]_vars
    /\ [][(fn' = fn /\ args' = args) => ret' = ret]_vars

\* a call that read three of the constants
C17_Witness ==
    /\ fn = "combined_simulation"
    /\ args[2].n > 0
    /\ args[5] = R(50)
    /\ args[6].n > 0
    /\ ret.val.electricity_emissions = R(4200)
    /\ factors = EmissionFactors

InRange(p) == p.n >= 0 /\ p.n <= 100 * p.d

\* C18: for non-negative litres, kWh, coal tonnes, distance, hectares, tree
\* counts and existing absorption, and percentages in 0 .. 100, no emission,
\* absorption or simulated value is negative.
C18_NonNegative ==
    LET AllNonNeg == \A i \in 1..Len(args) : args[i].n >= 0
    IN  /\ (/\ fn \in {"diesel_emissions", "electricity_emissions",
                       "excavation_emissions", "transportation_emissions",
                       "carbon_absorption_from_area", "carbon_absorption_from_trees",
                       "total_absorption", "simulate_afforestation"}
            /\ AllNonNeg)
              => ret.exc = "none" /\ ret.val.n >= 0
        /\ (fn = "simulate_electrification" /\ args[1].n >= 0 /\ InRange(args[2]))
              => ret.exc = "none" /\ ret.val.n >= 0
        /\ (fn = "simulate_renewable_energy" /\ args[1].n >= 0 /\ InRange(args[2]))
              => /\ ret.exc = "none"
                 /\ ret.val.grid.n >= 0
                 /\ ret.val.renewable.n >= 0
                 /\ ret.val.total.n >= 0

C18_Witness ==
    /\ fn = "simulate_renewable_energy"
    /\ args[1].n > 0
    /\ args[2] = R(75)
    /\ ret.val.grid.n > 0

\* two successive runs of the combined simulation
BothCombined == fn = "combined_simulation" /\ fn' = "combined_simulation"

\* C19: the three levers of combined_simulation are independent: of two
\* successive runs, those with the same diesel_kg and electrification_pct
\* return the same 'diesel_emissions', those with the same electricity_kwh
\* and renewable_pct the same 'electricity_emissions', and those with the
\* same current absorption, added hectares and added trees the same
\* 'total_absorption', whatever the other arguments are.
C19_LeversIndependent ==
    /\ [][(BothCombined /\ args'[1] = args[1] /\ args'[4] = args[4])
            => ret'.val.diesel_emissions = ret.val.diesel_emissions]_vars
    /\ [][(BothCombined /\ args'[2] = args[2] /\ args'[5] = args[5])
            => ret'.val.electricity_emissions = ret.val.electricity_emissions]_vars
    /\ [][(BothCombined /\ args'[3] = args[3] /\ args'[6] = args[6]
                        /\ args'[7] = args[7])
            => ret'.val.total_absorption = ret.val.total_absorption]_vars

\* a run with renewables on and sinks added to an operation with emissions
C19_Witness ==
    /\ fn = "combined_simulation"
    /\ args[1].n > 0
    /\ args[2].n > 0
    /\ args[4] = R(0)
    /\ args[5] = R(50)
    /\ args[7].n > 0
    /\ ret.val.diesel_emissions = args[1]
    /\ ret.val.total_absorption.n > 0

\* C20: the simulate functions neither clamp nor reject a percentage outside
\* 0 .. 100: for diesel_kg > 0, pct > 100 gives a negative result and pct < 0
\* a result above diesel_kg; for kwh > 0, renewable_pct > 100 gives a
\* negative 'grid'.
C20_NoClamp ==
    /\ (fn = "simulate_electrification" /\ args[1].n > 0) =>
          /\ ret.exc = "none"
          /\ RGt(args[2], R(100)) => ret.val.n < 0
          /\ args[2].n < 0 => RGt(ret.val, args[1])
    /\ (fn = "simulate_renewable_energy" /\ args[1].n > 0 /\ RGt(args[2], R(100))) =>
          /\ ret.exc = "none"
          /\ ret.val.grid.n < 0

C20_Witness ==
    /\ fn = "simulate_electrification"
    /\ args[1].n > 0
    /\ args[2] = R(125)
    /\ ret.val.n < 0


\* C21: renewable electricity is billed at a residual factor, not at nothing:
\* for kwh > 0, simulate_renewable_energy(kwh, 100)['total'] is kwh * 0.02,
\* which is above 0, and simulate_renewable_energy(kwh, 0)['total'] is kwh *
\* 0.82, the value electricity_emissions(kwh) returns; of two successive calls
\* on the same kwh with percentages p1 <= p2 in 0 .. 100 the second 'total'
\* is no larger.
C21_RenewableResidual ==
    /\ [](fn = "simulate_renewable_energy" /\ args[1].n > 0 =>
            /\ ret.exc = "none"
            /\ args[2] = R(100) =>
                  /\ ret.val.total = RMul(args[1], Q(2, 100))
                  /\ ret.val.total.n > 0
            /\ args[2] = R(0) => ret.val.total = RMul(args[1], Q(82, 100)))
    /\ [][(/\ fn = "electricity_emissions"
           /\ fn' = "simulate_renewable_energy"
           /\ args[1].n > 0
           /\ args' = <<args[1], R(0)>>)
              => ret'.val.total = ret.val]_vars
    /\ [][(/\ fn = "simulate_renewable_energy"
           /\ fn' = "simulate_renewable_energy"
           /\ args[1].n > 0
           /\ args'[1] = args[1]
           /\ InRange(args[2])
           /\ InRange(args'[2])
           /\ RLe(args[2], args'[2]))
              => RLe(ret'.val.total, ret.val.total)]_vars

\* a fully renewable supply that still emits
C21_Witness ==
    /\ fn = "simulate_renewable_energy"
    /\ args[1] = R(10000)
    /\ args[2] = R(100)
    /\ ret.val.grid = Zero
    /\ ret.val.total = R(200)

\* the widgets hold values their min_value and max_value allow
WidgetsInRange ==
    /\ diesel_litres.n >= 0
    /\ electricity_kwh.n >= 0
    /\ coal_extracted.n >= 0
    /\ transport_distance.n >= 0
    /\ plantation_area.n >= 0
    /\ num_trees.n >= 0
    /\ InRange(electrification_pct)
    /\ InRange(renewable_pct)
    /\ added_plantation.n >= 0
    /\ added_trees_sim.n >= 0

\* C22: simulation never worsens the scenario: for non-negative operational
\* inputs, both percentages in 0 .. 100 and non-negative additions, the
\* simulated total emissions are at most the current total, the simulated
\* absorption is at least the current absorption, and the simulated gap is at
\* most the current gap; none of the three impact metrics is negative.
C22_NeverWorse ==
    WidgetsInRange =>
        /\ RLe(new_total_em, total_em)
        /\ RGe(new_absorption, total_absorption_kg)
        /\ RLe(new_gap_tonnes, emission_gap_tonnes)
        /\ reduction.n >= 0
        /\ absorption_increase.n >= 0
        /\ gap_improvement.n >= 0

\* levers that cut diesel and electricity emissions and add sinks
C22_Witness ==
    /\ WidgetsInRange
    /\ electrification_pct = R(30)
    /\ renewable_pct = R(100)
    /\ added_plantation = R(100)
    /\ RLt(new_diesel_em, diesel_em)
    /\ RLt(new_electricity_em, electricity_em)
    /\ RLt(new_total_em, total_em)
    /\ RGt(new_absorption, total_absorption_kg)
    /\ gap_improvement.n > 0

\* every slider at its minimum
NullSliders ==
    /\ electrification_pct = R(0)
    /\ renewable_pct = R(0)
    /\ added_plantation = R(0)
    /\ added_trees_sim = R(0)

\* C23: the null simulation is the identity: with electrification 0 %,
\* renewables 0 %, no added hectares and no added trees, the simulated diesel
\* emissions, electricity emissions (which combined_simulation computes from
\* the kWh), total emissions, absorption and gap equal the current ones
\* (computed from electricity_emissions(kwh) and total_absorption).
C23_NullSimulationIdentity ==
    NullSliders =>
        /\ new_diesel_em = diesel_em
        /\ new_electricity_em = electricity_em
        /\ new_electricity_em = electricity_emissions(electricity_kwh)
        /\ new_total_em = total_em
        /\ new_absorption = total_absorption_kg
        /\ new_absorption = total_absorption(plantation_area, num_trees)
        /\ new_gap_tonnes = emission_gap_tonnes

\* the null simulation of an operation with emissions and sinks
C23_Witness ==
    /\ NullSliders
    /\ diesel_em.n > 0
    /\ electricity_em.n > 0
    /\ transport_em.n > 0
    /\ total_absorption_kg.n > 0
    /\ new_gap_tonnes = emission_gap_tonnes
    /\ new_gap_tonnes.n > 0

C26_SimulationStatusCredit ==
    /\ "CarbonCreditEstimate" \in sim_msgs <=> new_gap_tonnes.n > 0
    /\ new_gap_tonnes.n > 0 =>
          /\ sim_msgs = {"CarbonCreditEstimate"}
          /\ credit_cost = RMul(new_gap_tonnes, R(15))
          /\ credit_cost = RMul(RDiv(RSub(new_total_em, new_absorption), R(1000)), R(15))
          /\ credit_cost.n > 0
    /\ new_gap_tonnes.n <= 0 =>
          /\ credit_cost = Unbound
          /\ \/ sim_msgs = {"NoProductionData"}
             \/ sim_msgs = {"AchievementUnlocked"}

\* a gap that the levers shrink but do not close
C26_Witness ==
    /\ electrification_pct = R(100)
    /\ renewable_pct = R(100)
    /\ added_plantation = R(0)
    /\ coal_extracted.n > 0
    /\ new_gap_tonnes.n > 0
    /\ RLt(new_gap_tonnes, emission_gap_tonnes)
    /\ sim_msgs = {"CarbonCreditEstimate"}
    /\ credit_cost.n > 0
=============================================================================
